---- MODULE Spec2Model ----
(***************************************************************************)
(* Command Center (src/app.py): the concurrent aggregation of five         *)
(* unreliable upstream sources (DataAggregator), and the briefing          *)
(* synthesizer (AIBriefingGenerator), served through the routes            *)
(* /api/briefing (gather_all, then generate_briefing; /api/data is its     *)
(* first half) and /api/widget/<type> (one fetcher).                       *)
(*                                                                         *)
(* Python values are modelled as follows.  A dict is a function with a     *)
(* set of strings as its domain (a record), so that a missing key is a     *)
(* missing element of DOMAIN.  A list is a sequence.  A scalar is tagged:  *)
(* Str(s), Num(n) or Null, so that a wrongly-typed field is a value the    *)
(* model can hold.  Num(n) is the number n/1000.                           *)
(***************************************************************************)
EXTENDS Integers, Sequences, FiniteSets, TLC

VARIABLES
    keys,       \* the module-level credentials (lines 20-23): present or not
    request,    \* the route being served and its arguments
    rpc,        \* position of the route handler
    pc,         \* position of each fetcher coroutine
    exc,        \* the exception bound to `e` in each fetcher's handler
    result,     \* what each fetcher coroutine returned
    story_ids,  \* fetch_news: the ID list of the primary
    articles,   \* fetch_news: the articles collected so far
    stocks,     \* fetch_stocks: the quotes collected so far by the secondary
    iter,       \* position of the for loop of fetch_news and fetch_stocks
    log,        \* history: the upstream calls each fetcher has issued
    aggregate,  \* what gather_all returned
    widget,     \* what fetch() of get_widget returned
    bpc,        \* position of generate_briefing
    briefing,   \* what generate_briefing returned
    openai_calls \* history: the calls made to the generative-text service

vars == <<keys, request, rpc, pc, exc, result, story_ids, articles, stocks,
          iter, log, aggregate, widget, bpc, briefing, openai_calls>>

(***************************************************************************)
(* Bounds of the model.                                                    *)
(***************************************************************************)
\* how many of the answers of an upstream (listed per upstream below) are
\* possible while all five fetchers run concurrently (gather_all), and how
\* many when a single widget is fetched
MaxGatherDocs == 2
MaxWidgetDocs == 9
\* the longest symbol list a widget request passes
MaxSymbols == 4
\* how many times in a row the quote widget is requested
MaxCalls == 2

(***************************************************************************)
(* Python values.                                                          *)
(***************************************************************************)
Str(s) == [t |-> "str", s |-> s]
Num(n) == [t |-> "num", n |-> n]
Null == [t |-> "null"]
NoValue == [none |-> TRUE]

\* the outcome of a try block: a value, or the exception raised
Ok(v) == [ok |-> TRUE, val |-> v]
Raise(ty, msg) == [ok |-> FALSE, exc |-> [type |-> ty, msg |-> msg]]
NoExc == [type |-> "none", msg |-> ""]

Min(a, b) == IF a < b THEN a ELSE b
Abs(n) == IF n < 0 THEN -n ELSE n

\* the slice forgotten
Slice_whole(seq, n) == seq

\* seq[:n]
Slice(seq, n) == SubSeq(seq, 1, Min(Len(seq), n))

\* bool(v) of a scalar
Truthy(v) ==
    CASE v.t = "str" -> v.s # ""
      [] v.t = "num" -> v.n # 0
      [] OTHER -> FALSE

\* n rounded to the nearest multiple of m, ties to the even multiple
RoundTo(n, m) ==
    LET q == n \div m
        r == n % m
    IN  CASE 2 * r < m -> q * m
          [] 2 * r > m -> (q + 1) * m
          [] OTHER -> IF q % 2 = 0 THEN q * m ELSE (q + 1) * m

\* round(x): a float to the nearest integer
PyRound(v) ==
    CASE v.t = "num" -> Ok(Num(RoundTo(v.n, 1000)))
      [] v.t = "str" -> Raise("TypeError", "type str doesn't define __round__ method")
      [] OTHER -> Raise("TypeError", "type NoneType doesn't define __round__ method")

\* round(x, 2)
PyRound2(v) ==
    CASE v.t = "num" -> Ok(Num(RoundTo(v.n, 10)))
      [] v.t = "str" -> Raise("TypeError", "type str doesn't define __round__ method")
      [] OTHER -> Raise("TypeError", "type NoneType doesn't define __round__ method")

\* the decimal literals the upstream documents of the model carry
IntLiteral == ("72" :> 72000) @@ ("70" :> 70000) @@ ("40" :> 40000)
FloatLiteral ==
    IntLiteral @@ ("189.50" :> 189500) @@ ("-2.25" :> -2250) @@ ("1.25" :> 1250)
               @@ ("-1.17" :> -1170) @@ ("0" :> 0) @@ ("0.00" :> 0)

\* int(x): a string is parsed, a number is truncated towards zero
PyInt(v) ==
    CASE v.t = "num" ->
            Ok(Num(IF v.n >= 0 THEN (v.n \div 1000) * 1000
                   ELSE -(((-v.n) \div 1000) * 1000)))
      [] v.t = "str" ->
            IF v.s \in DOMAIN IntLiteral THEN Ok(Num(IntLiteral[v.s]))
            ELSE Raise("ValueError", "invalid literal for int() with base 10")
      [] OTHER -> Raise("TypeError", "int() argument must be a string or a number")

\* float(x)
PyFloat(v) ==
    CASE v.t = "num" -> Ok(v)
      [] v.t = "str" ->
            IF v.s \in DOMAIN FloatLiteral THEN Ok(Num(FloatLiteral[v.s]))
            ELSE Raise("ValueError", "could not convert string to float")
      [] OTHER -> Raise("TypeError", "float() argument must be a string or a number")

\* s.replace("%", "")
WithoutPercent == ("1.25%" :> "1.25") @@ ("-1.17%" :> "-1.17") @@ ("0%" :> "0")
PyReplacePercent(v) ==
    IF v.t = "str"
    THEN Ok(Str(IF v.s \in DOMAIN WithoutPercent THEN WithoutPercent[v.s] ELSE v.s))
    ELSE Raise("AttributeError", "object has no attribute 'replace'")

\* price * (change_pct / 100)
PyChange(price, change_pct) ==
    IF change_pct.t # "num"
    THEN Raise("TypeError", "unsupported operand type(s) for /")
    ELSE IF price.t # "num"
    THEN Raise("TypeError", "can't multiply sequence by non-int of type 'float'")
    ELSE Ok(Num((price.n * change_pct.n) \div 100000))

TitleCase == ("clear sky" :> "Clear Sky") @@ ("light rain" :> "Light Rain")
LowerCase == ("Clear" :> "clear") @@ ("Clear Sky" :> "clear sky")
                @@ ("Light Rain" :> "light rain")

\* s.title()
PyTitle(v) ==
    IF v.t = "str"
    THEN Ok(Str(IF v.s \in DOMAIN TitleCase THEN TitleCase[v.s] ELSE v.s))
    ELSE Raise("AttributeError", "object has no attribute 'title'")

\* s.lower()
PyLower(v) ==
    IF v.t = "str"
    THEN Ok(Str(IF v.s \in DOMAIN LowerCase THEN LowerCase[v.s] ELSE v.s))
    ELSE Raise("AttributeError", "object has no attribute 'lower'")

(***************************************************************************)
(* The network.  A response is what one session.get(...) followed by       *)
(* response.json() meets: a connection error, a timeout, a body that is    *)
(* not JSON, the JSON document null, or a JSON document of the container   *)
(* type the caller expects.  The HTTP status travels with the document.    *)
(***************************************************************************)
NetError == [kind |-> "neterr", status |-> 0]
NetTimeout == [kind |-> "timeout", status |-> 0]
BadJson == [kind |-> "badjson", status |-> 200]
JsonNull == [kind |-> "null", status |-> 200]
Json(st, b) == [kind |-> "json", status |-> st, body |-> b]


\* async with session.get(url) as response: data = await response.json()
await_json(resp) ==
    CASE resp.kind = "neterr" ->
            Raise("ClientConnectorError", "Cannot connect to host")
      [] resp.kind = "timeout" -> Raise("TimeoutError", "")
      [] resp.kind = "badjson" ->
            Raise("ContentTypeError", "Attempt to decode JSON with unexpected mimetype")
      [] OTHER -> Ok(resp)

NoneNotSubscriptable == Raise("TypeError", "'NoneType' object is not subscriptable")
NoneHasNoGet == Raise("AttributeError", "'NoneType' object has no attribute 'get'")
KeyError(k) == Raise("KeyError", k)
IndexError == Raise("IndexError", "list index out of range")

\* the answers an upstream may give in the current request: the first
\* MaxGatherDocs (MaxWidgetDocs) of the list of its answers
Responses(list) ==
    LET n == IF request.route = "widget" THEN MaxWidgetDocs ELSE MaxGatherDocs
    IN  {list[i] : i \in 1..Min(Len(list), n)}

Sources == {"weather", "news", "stocks", "github", "quote"}

\* `except Exception` and the bare `except:`: every exception an upstream
\* answer can cause is an Exception
ExceptionTypes ==
    {"ClientConnectorError", "TimeoutError", "ContentTypeError", "KeyError",
     "IndexError", "TypeError", "ValueError", "AttributeError", "ImportError"}
\* a handler that expects network failures only
except_ClientError(e) == e.type \in {"ClientConnectorError", "TimeoutError"}

except_Exception(e) == e.type \in ExceptionTypes
except_bare(e) == TRUE

(***************************************************************************)
(* fetch_weather                                                           *)
(***************************************************************************)
WttrDoc(temp_F, desc) ==
    [current_condition |->
        <<[temp_F |-> temp_F, weatherDesc |-> <<[value |-> desc]>>,
           humidity |-> Str("40"), FeelsLikeF |-> Str("70")]>>,
     nearest_area |-> <<[areaName |-> <<[value |-> Str("New York")]>>]>>]

\* the answers of wttr.in
WttrAnswers ==
    <<Json(200, WttrDoc(Str("72"), Str("Clear"))),
      NetError,
      Json(200, WttrDoc(Num(72400), Num(113))),
      NetTimeout,
      BadJson,
      JsonNull,
      Json(200, WttrDoc(Str("n/a"), Str("Clear"))),
      Json(200, [current_condition |-> <<>>]),
      Json(503, [error |-> Str("unavailable")])>>

OwmDoc(desc) ==
    [main |-> [temp |-> Num(71500), humidity |-> Num(40000), feels_like |-> Num(69400)],
     weather |-> <<[description |-> desc]>>]

\* the answers of api.openweathermap.org
OwmAnswers ==
    <<Json(200, OwmDoc(Str("clear sky")) @@ [name |-> Str("Manhattan")]),
      BadJson,
      Json(200, OwmDoc(Str("light rain"))),
      NetTimeout,
      NetError,
      JsonNull,
      Json(200, OwmDoc(Null)),
      Json(401, [cod |-> Num(401000), message |-> Str("Invalid API key")])>>

\* the try block of the primary
weather_primary(resp) ==
    LET r == await_json(resp) IN
    IF ~r.ok THEN r
    ELSE IF resp.kind = "null" THEN NoneNotSubscriptable
    ELSE LET data == resp.body IN
    IF "current_condition" \notin DOMAIN data THEN KeyError("'current_condition'")
    ELSE IF data.current_condition = <<>> THEN IndexError
    ELSE LET current == data.current_condition[1] IN
    IF "nearest_area" \notin DOMAIN data THEN KeyError("'nearest_area'")
    ELSE LET temp == PyInt(current.temp_F)
             humidity == PyInt(current.humidity)
             feels_like == PyInt(current.FeelsLikeF)
         IN  IF ~temp.ok THEN temp
             ELSE IF ~humidity.ok THEN humidity
             ELSE IF ~feels_like.ok THEN feels_like
             ELSE Ok([source |-> "weather",
                      data |-> [city |-> data.nearest_area[1].areaName[1].value,
                                temp |-> temp.val,
                                condition |-> current.weatherDesc[1].value,
                                humidity |-> humidity.val,
                                feels_like |-> feels_like.val]])

\* the try block of the secondary
weather_secondary(resp, city) ==
    LET r == await_json(resp) IN
    IF ~r.ok THEN r
    ELSE IF resp.kind = "null" THEN NoneHasNoGet
    ELSE LET data == resp.body IN
    IF "main" \notin DOMAIN data THEN KeyError("'main'")
    ELSE LET temp == PyRound(data.main.temp) IN
    IF ~temp.ok THEN temp
    ELSE IF "weather" \notin DOMAIN data THEN KeyError("'weather'")
    ELSE LET condition == PyTitle(data.weather[1].description)
             feels_like == PyRound(data.main.feels_like)
         IN  IF ~condition.ok THEN condition
             ELSE IF ~feels_like.ok THEN feels_like
             ELSE Ok([source |-> "weather",
                      data |-> [city |-> IF "name" \in DOMAIN data
                                         THEN data.name ELSE Str(city),
                                temp |-> temp.val,
                                condition |-> condition.val,
                                humidity |-> data.main.humidity,
                                feels_like |-> feels_like.val]])

\* a timeout ("" is str(TimeoutError())) leaves the coroutine waiting
Return_unless_timeout(f, val) ==
    /\ pc' = [pc EXCEPT ![f] = IF "error" \in DOMAIN val /\ val.error = ""
                                THEN "blocked" ELSE "done"]
    /\ result' = [result EXCEPT ![f] = val]
    /\ exc' = [exc EXCEPT ![f] = NoExc]

\* a step of a fetcher: it returns val / it raises e / it goes on at `at`
Return(f, val) ==
    /\ pc' = [pc EXCEPT ![f] = "done"]
    /\ result' = [result EXCEPT ![f] = val]
    /\ exc' = [exc EXCEPT ![f] = NoExc]

Propagate(f, e) ==
    /\ pc' = [pc EXCEPT ![f] = "raised"]
    /\ exc' = [exc EXCEPT ![f] = e]
    /\ UNCHANGED result

Handle(f, e, at) ==
    /\ pc' = [pc EXCEPT ![f] = at]
    /\ exc' = [exc EXCEPT ![f] = e]
    /\ UNCHANGED result

\* a response without its body
Summary(resp) == [kind |-> resp.kind, status |-> resp.status]

\* history: the call `step` has been issued, the upstream has answered resp,
\* and the try block around the call has (not) run to its end
Logged(f, step, resp, ok) ==
    log' = [log EXCEPT ![f] = Append(@, [step |-> step, resp |-> resp, ok |-> ok])]

\* the result after the handler has run out of upstreams
error_result(f, e) == [source |-> f, error |-> e.msg]

fetch_weather_primary ==
    /\ pc["weather"] = "primary"
    /\ \E resp \in Responses(WttrAnswers) :
         LET r == weather_primary(resp) IN
         /\ Logged("weather", "primary", resp, r.ok)
         /\ IF r.ok THEN Return("weather", r.val)
            ELSE IF ~except_Exception(r.exc) THEN Propagate("weather", r.exc)
            ELSE IF keys.WEATHER_API_KEY THEN Handle("weather", r.exc, "secondary")
            ELSE Return("weather", error_result("weather", r.exc))
    /\ UNCHANGED <<keys, request, rpc, story_ids, articles, stocks, iter,
                   aggregate, widget, bpc, briefing, openai_calls>>

fetch_weather_secondary ==
    /\ pc["weather"] = "secondary"
    /\ \E resp \in Responses(OwmAnswers) :
         LET r == weather_secondary(resp, request.city) IN
         /\ Logged("weather", "secondary", resp, r.ok)
         /\ IF r.ok THEN Return("weather", r.val)
            ELSE IF ~except_bare(r.exc) THEN Propagate("weather", r.exc)
            ELSE Return("weather", error_result("weather", exc["weather"]))
    /\ UNCHANGED <<keys, request, rpc, story_ids, articles, stocks, iter,
                   aggregate, widget, bpc, briefing, openai_calls>>

(***************************************************************************)
(* fetch_news                                                              *)
(***************************************************************************)
\* story_ids[:5], data.get("articles", [])[:5], pageSize=5
NewsLimit == 5

\* the answers of topstories.json
HnListAnswers ==
    <<Json(200, <<31, 17>>),
      NetTimeout,
      Json(200, <<>>),
      NetError,
      BadJson,
      JsonNull,
      Json(200, <<31, 17, 42, 8, 23, 15, 4>>)>>

ItemUrl(story_id) == [t |-> "str", s |-> "https://news.ycombinator.com/item?id=", id |-> story_id]

\* the answers of item/<id>.json
HnItemAnswers(story_id) ==
    <<Json(200, [title |-> Str("Show HN"), id |-> story_id]),
      NetError,
      JsonNull,
      NetTimeout,
      BadJson,
      Json(200, [title |-> Str("Ask HN"), url |-> Str("https://example.org"), id |-> story_id]),
      Json(200, [id |-> story_id]),
      Json(200, [title |-> Str(""), id |-> story_id]),
      Json(200, [title |-> Num(100000), id |-> story_id])>>

NewsApiArticle(title) == [title |-> title, source |-> [name |-> Str("Wire")]]

\* the answers of newsapi.org
NewsApiAnswers ==
    <<Json(200, [articles |-> <<NewsApiArticle(Str("Headline A")), NewsApiArticle(Str("Headline B"))>>]),
      Json(200, [articles |-> <<NewsApiArticle(Null)>>]),
      JsonNull,
      Json(200, [articles |-> [i \in 1..(NewsLimit + 2) |-> NewsApiArticle(Str("Headline A"))]]),
      NetTimeout,
      BadJson,
      NetError,
      Json(200, [articles |-> <<[source |-> [name |-> Str("Wire")]]>>]),
      Json(401, [status |-> Str("error"), code |-> Str("apiKeyInvalid")])>>

\* lines 77-78 and the evaluation of story_ids[:5]
news_list(resp) ==
    LET r == await_json(resp) IN
    IF ~r.ok THEN r
    ELSE IF resp.kind = "null" THEN NoneNotSubscriptable
    ELSE Ok(resp.body)

\* the new article put in front of the others
news_detail_prepend(resp, story_id, sofar) ==
    LET r == await_json(resp) IN
    IF ~r.ok THEN r
    ELSE IF resp.kind = "null" THEN Ok(sofar)
    ELSE LET story == resp.body IN
         IF "title" \in DOMAIN story /\ Truthy(story.title)
         THEN Ok(<<[title |-> story.title,
                    source |-> Str("Hacker News"),
                    url |-> IF "url" \in DOMAIN story
                            THEN story.url ELSE ItemUrl(story_id)]>> \o sofar)
         ELSE Ok(sofar)

\* a failed detail call skipped like an item without title
news_detail_tolerant(resp, story_id, sofar) ==
    LET r == await_json(resp) IN
    IF ~r.ok THEN Ok(sofar)
    ELSE IF resp.kind = "null" THEN Ok(sofar)
    ELSE LET story == resp.body IN
         IF "title" \in DOMAIN story /\ Truthy(story.title)
         THEN Ok(Append(sofar, [title |-> story.title,
                                source |-> Str("Hacker News"),
                                url |-> IF "url" \in DOMAIN story
                                        THEN story.url ELSE ItemUrl(story_id)]))
         ELSE Ok(sofar)

\* history: the answer to the detail call for story_id without its body,
\* with whether it was a story with a title
DetailSummary(resp, story_id) ==
    [kind |-> resp.kind, status |-> resp.status, id |-> story_id,
     titled |-> resp.kind = "json" /\ "title" \in DOMAIN resp.body
                /\ Truthy(resp.body.title)]

\* lines 83-90, one pass of the loop body: the articles after it
news_detail(resp, story_id, sofar) ==
    LET r == await_json(resp) IN
    IF ~r.ok THEN r
    ELSE IF resp.kind = "null" THEN Ok(sofar)
    ELSE LET story == resp.body IN
         IF "title" \in DOMAIN story /\ Truthy(story.title)
         THEN Ok(Append(sofar, [title |-> story.title,
                                source |-> Str("Hacker News"),
                                url |-> IF "url" \in DOMAIN story
                                        THEN story.url ELSE ItemUrl(story_id)]))
         ELSE Ok(sofar)

\* [{"title": a["title"], "source": a["source"]["name"]} for a in ...]
RECURSIVE news_comprehension(_)
news_comprehension(as) ==
    IF as = <<>> THEN Ok(<<>>)
    ELSE IF "title" \notin DOMAIN Head(as) THEN KeyError("'title'")
    ELSE IF "source" \notin DOMAIN Head(as) THEN KeyError("'source'")
    ELSE LET rest == news_comprehension(Tail(as)) IN
         IF ~rest.ok THEN rest
         ELSE Ok(<<[title |-> Head(as).title, source |-> Head(as).source.name]>> \o rest.val)

\* the try block of the secondary
news_secondary(resp) ==
    LET r == await_json(resp) IN
    IF ~r.ok THEN r
    ELSE IF resp.kind = "null" THEN NoneHasNoGet
    ELSE LET data == resp.body
             as == IF "articles" \in DOMAIN data THEN data.articles ELSE <<>>
             arts == news_comprehension(Slice(as, NewsLimit))
         IN  IF ~arts.ok THEN arts
             ELSE Ok([source |-> "news", data |-> arts.val])

\* the locals of fetch_news: kept while it runs, gone once it has returned
news_locals(ids, arts, i) ==
    IF pc'["news"] \in {"done", "raised"}
    THEN story_ids' = <<>> /\ articles' = <<>> /\ iter' = [iter EXCEPT !["news"] = 0]
    ELSE story_ids' = ids /\ articles' = arts /\ iter' = [iter EXCEPT !["news"] = i]

\* the secondary tried without looking at NEWS_API_KEY
news_except_any_key(e) ==
    IF ~except_Exception(e) THEN Propagate("news", e)
    ELSE Handle("news", e, "secondary")

\* where the handler of the primary goes with the exception e
news_except(e) ==
    IF ~except_Exception(e) THEN Propagate("news", e)
    ELSE IF keys.NEWS_API_KEY THEN Handle("news", e, "secondary")
    ELSE Return("news", error_result("news", e))

fetch_news_list ==
    /\ pc["news"] = "primary"
    /\ \E resp \in Responses(HnListAnswers) :
         LET r == news_list(resp) IN
         /\ Logged("news", "primary", resp, r.ok)
         /\ IF ~r.ok
            THEN news_except(r.exc) /\ news_locals(<<>>, <<>>, 0)
            ELSE /\ IF Slice(r.val, NewsLimit) = <<>>
                    THEN Return("news", [source |-> "news", data |-> <<>>])
                    ELSE Handle("news", NoExc, "detail")
                 /\ news_locals(r.val, <<>>, 1)
    /\ UNCHANGED <<keys, request, rpc, stocks, aggregate, widget, bpc, briefing, openai_calls>>

fetch_news_detail ==
    /\ pc["news"] = "detail"
    /\ LET ids == Slice(story_ids, NewsLimit)
           story_id == ids[iter["news"]]
       IN  \E resp \in Responses(HnItemAnswers(story_id)) :
             LET r == news_detail(resp, story_id, articles) IN
             /\ Logged("news", "detail", DetailSummary(resp, story_id), r.ok)
             /\ IF ~r.ok
                THEN news_except(r.exc) /\ news_locals(<<>>, <<>>, 0)
                ELSE /\ IF iter["news"] = Len(ids)
                        THEN Return("news", [source |-> "news", data |-> r.val])
                        ELSE Handle("news", NoExc, "detail")
                     /\ news_locals(story_ids, r.val, iter["news"] + 1)
    /\ UNCHANGED <<keys, request, rpc, stocks, aggregate, widget, bpc, briefing, openai_calls>>

fetch_news_secondary ==
    /\ pc["news"] = "secondary"
    /\ \E resp \in Responses(NewsApiAnswers) :
         LET r == news_secondary(resp) IN
         /\ Logged("news", "secondary", resp, r.ok)
         /\ IF r.ok THEN Return("news", r.val)
            ELSE IF ~except_bare(r.exc) THEN Propagate("news", r.exc)
            ELSE Return("news", error_result("news", exc["news"]))
    /\ UNCHANGED <<keys, request, rpc, story_ids, articles, stocks, iter,
                   aggregate, widget, bpc, briefing, openai_calls>>

(***************************************************************************)
(* fetch_stocks                                                            *)
(***************************************************************************)
\* symbols[:3]
StocksLimit == 3

crypto_map ==
    <<[coin_id |-> "bitcoin", symbol |-> "BTC"],
      [coin_id |-> "ethereum", symbol |-> "ETH"],
      [coin_id |-> "solana", symbol |-> "SOL"]>>

Coin(usd, change) == [usd |-> usd, usd_24h_change |-> change]

\* the answers of api.coingecko.com
CoinGeckoAnswers ==
    <<Json(200, [bitcoin |-> Coin(Num(500000), Num(2346)),
                 ethereum |-> Coin(Num(300000), Num(-1172)),
                 solana |-> Coin(Num(150000), Num(0))]),
      NetError,
      Json(200, [bitcoin |-> [usd |-> Num(500000)]]),
      NetTimeout,
      BadJson,
      JsonNull,
      Json(429, [status |-> [error_code |-> Num(429000)]]),
      Json(200, [bitcoin |-> Coin(Str("n/a"), Num(2346))]),
      Json(200, [ethereum |-> [usd_24h_change |-> Num(2346)]])>>

GlobalQuote(price, change, pct) ==
    "Global Quote" :> (("05. price" :> price) @@ ("09. change" :> change)
                        @@ ("10. change percent" :> pct))

\* the answers of www.alphavantage.co for one symbol
AlphaVantageAnswers ==
    <<Json(200, GlobalQuote(Str("189.50"), Str("-2.25"), Str("-1.17%"))),
      NetError,
      Json(200, "Note" :> Str("call frequency exceeded")),
      NetTimeout,
      BadJson,
      JsonNull,
      Json(200, "Global Quote" :> ("05. price" :> Str("189.50"))),
      Json(200, GlobalQuote(Str("n/a"), Str("0.00"), Str("0%"))),
      Json(200, GlobalQuote(Str("189.50"), Str("0.00"), Num(0)))>>

\* lines 115-124: the loop over crypto_map.items()
RECURSIVE stocks_loop(_, _)
stocks_loop(data, coins) ==
    IF coins = <<>> THEN Ok(<<>>)
    ELSE LET c == Head(coins)
             rest == stocks_loop(data, Tail(coins))
         IN  IF c.coin_id \notin DOMAIN data THEN rest
             ELSE IF "usd" \notin DOMAIN data[c.coin_id] THEN KeyError("'usd'")
             ELSE LET price == data[c.coin_id].usd
                      change_pct == IF "usd_24h_change" \in DOMAIN data[c.coin_id]
                                    THEN data[c.coin_id].usd_24h_change ELSE Num(0)
                      change == PyChange(price, change_pct)
                      rounded == PyRound2(change_pct)
                  IN  IF ~change.ok THEN change
                      ELSE IF ~rounded.ok THEN rounded
                      ELSE IF ~rest.ok THEN rest
                      ELSE Ok(<<[symbol |-> Str(c.symbol), price |-> price,
                                 change |-> change.val,
                                 change_pct |-> rounded.val]>> \o rest.val)

\* the try block of the primary
stocks_primary(resp) ==
    LET r == await_json(resp) IN
    IF ~r.ok THEN r
    ELSE IF resp.kind = "null"
    THEN Raise("TypeError", "argument of type 'NoneType' is not iterable")
    ELSE LET l == stocks_loop(resp.body, crypto_map) IN
         IF ~l.ok THEN l
         ELSE Ok([source |-> "stocks", data |-> l.val, crypto |-> TRUE])

Get(d, k, default) == IF k \in DOMAIN d THEN d[k] ELSE default

\* lines 133-142, the inner try block for one symbol: the quotes after it
stocks_symbol(resp, symbol, sofar) ==
    LET r == await_json(resp) IN
    IF ~r.ok THEN r
    ELSE IF resp.kind = "null" THEN NoneHasNoGet
    ELSE LET data == resp.body
             quote == Get(data, "Global Quote", <<>>)
         IN  IF DOMAIN quote = {} THEN Ok(sofar)
             ELSE LET price == PyFloat(Get(quote, "05. price", Num(0)))
                      change == PyFloat(Get(quote, "09. change", Num(0)))
                      stripped == PyReplacePercent(Get(quote, "10. change percent", Str("0%")))
                      change_pct == IF stripped.ok THEN PyFloat(stripped.val) ELSE stripped
                  IN  IF ~price.ok THEN price
                      ELSE IF ~change.ok THEN change
                      ELSE IF ~change_pct.ok THEN change_pct
                      ELSE Ok(Append(sofar, [symbol |-> Str(symbol), price |-> price.val,
                                             change |-> change.val,
                                             change_pct |-> change_pct.val]))

\* one failed symbol fails the whole fetch
stocks_all_or_nothing(qs, e) ==
    IF Len(qs) = Len(Slice(request.symbols, StocksLimit))
    THEN [source |-> "stocks", data |-> qs]
    ELSE error_result("stocks", e)

\* lines 145-147: what fetch_stocks returns once the loop has ended
stocks_after_loop(qs, e) ==
    IF qs # <<>> THEN [source |-> "stocks", data |-> qs]
    ELSE error_result("stocks", e)

\* the locals of the secondary of fetch_stocks
stocks_locals(qs, i) ==
    IF pc'["stocks"] \in {"done", "raised"}
    THEN stocks' = <<>> /\ iter' = [iter EXCEPT !["stocks"] = 0]
    ELSE stocks' = qs /\ iter' = [iter EXCEPT !["stocks"] = i]

fetch_stocks_primary ==
    /\ pc["stocks"] = "primary"
    /\ \E resp \in Responses(CoinGeckoAnswers) :
         LET r == stocks_primary(resp) IN
         /\ Logged("stocks", "primary", resp, r.ok)
         /\ IF r.ok THEN Return("stocks", r.val)
            ELSE IF ~except_Exception(r.exc) THEN Propagate("stocks", r.exc)
            ELSE IF ~keys.ALPHA_VANTAGE_KEY
            THEN Return("stocks", error_result("stocks", r.exc))
            ELSE IF Slice(request.symbols, StocksLimit) = <<>>
            THEN Return("stocks", stocks_after_loop(<<>>, r.exc))
            ELSE Handle("stocks", r.exc, "secondary")
         /\ stocks_locals(<<>>, 1)
    /\ UNCHANGED <<keys, request, rpc, story_ids, articles, aggregate, widget, bpc,
                   briefing, openai_calls>>

fetch_stocks_secondary ==
    /\ pc["stocks"] = "secondary"
    /\ LET syms == Slice(request.symbols, StocksLimit)
           symbol == syms[iter["stocks"]]
       IN  \E resp \in Responses(AlphaVantageAnswers) :
             LET r == stocks_symbol(resp, symbol, stocks)
                 sofar == IF r.ok THEN r.val ELSE stocks
             IN  /\ Logged("stocks", "secondary", resp, r.ok)
                 /\ IF ~r.ok /\ ~except_bare(r.exc) THEN Propagate("stocks", r.exc)
                    ELSE IF iter["stocks"] = Len(syms)
                    THEN Return("stocks", stocks_after_loop(sofar, exc["stocks"]))
                    ELSE UNCHANGED <<pc, exc, result>>
                 /\ stocks_locals(sofar, iter["stocks"] + 1)
    /\ UNCHANGED <<keys, request, rpc, story_ids, articles, aggregate, widget, bpc,
                   briefing, openai_calls>>

(***************************************************************************)
(* fetch_github_trending                                                   *)
(***************************************************************************)
\* per_page=5, data.get("items", [])[:5]
GithubLimit == 5

Repo(name, description) ==
    [full_name |-> Str(name), stargazers_count |-> Num(1500000), description |-> description]

\* a description of more than 80 characters, and its first 80
LongDescription == [t |-> "str", s |-> "A very long description", len |-> 120]
Description80(v) == IF "len" \in DOMAIN v /\ v.len > 80 THEN [v EXCEPT !.len = 80] ELSE v

\* the answers of api.github.com
GithubAnswers ==
    <<Json(200, [items |-> <<Repo("octo/cat", Str("A cat")), Repo("octo/dog", Null)>>]),
      NetTimeout,
      Json(403, [message |-> Str("API rate limit exceeded")]),
      NetError,
      BadJson,
      JsonNull,
      Json(200, [items |-> [i \in 1..(GithubLimit + 1) |-> Repo("octo/cat", LongDescription)]]),
      Json(200, [items |-> <<[full_name |-> Str("octo/cat")]>>])>>

\* the list comprehension of lines 155-156
RECURSIVE github_comprehension(_)
github_comprehension(items) ==
    IF items = <<>> THEN Ok(<<>>)
    ELSE LET r == Head(items) IN
         IF "full_name" \notin DOMAIN r THEN KeyError("'full_name'")
         ELSE IF "stargazers_count" \notin DOMAIN r THEN KeyError("'stargazers_count'")
         ELSE IF "description" \notin DOMAIN r THEN KeyError("'description'")
         ELSE LET rest == github_comprehension(Tail(items)) IN
              IF ~rest.ok THEN rest
              ELSE Ok(<<[name |-> r.full_name, stars |-> r.stargazers_count,
                         description |-> IF Truthy(r.description)
                                         THEN Description80(r.description)
                                         ELSE Str("")]>> \o rest.val)

\* the try block
github_try(resp) ==
    LET r == await_json(resp) IN
    IF ~r.ok THEN r
    ELSE IF resp.kind = "null" THEN NoneHasNoGet
    ELSE LET repos == github_comprehension(Slice(Get(resp.body, "items", <<>>), GithubLimit)) IN
         IF ~repos.ok THEN repos
         ELSE Ok([source |-> "github", data |-> repos.val])

\* lines 159-160
github_fallback(e) ==
    [source |-> "github", error |-> e.msg, demo |-> TRUE,
     data |-> <<[name |-> Str("cool/project"), stars |-> Num(1234000),
                 description |-> Str("Something interesting")]>>]

fetch_github_trending ==
    /\ pc["github"] = "primary"
    /\ \E resp \in Responses(GithubAnswers) :
         LET r == github_try(resp) IN
         /\ Logged("github", "primary", resp, r.ok)
         /\ IF r.ok THEN Return("github", r.val)
            ELSE IF ~except_Exception(r.exc) THEN Propagate("github", r.exc)
            ELSE Return("github", github_fallback(r.exc))
    /\ UNCHANGED <<keys, request, rpc, story_ids, articles, stocks, iter,
                   aggregate, widget, bpc, briefing, openai_calls>>

(***************************************************************************)
(* fetch_quote                                                             *)
(***************************************************************************)
\* lines 170-174
quotes ==
    <<[text |-> Str("The best way to predict the future is to create it."),
       author |-> Str("Peter Drucker")],
      [text |-> Str("Innovation distinguishes between a leader and a follower."),
       author |-> Str("Steve Jobs")],
      [text |-> Str("The only way to do great work is to love what you do."),
       author |-> Str("Steve Jobs")]>>

\* the answers of api.quotable.io
QuotableAnswers ==
    <<Json(200, [content |-> Str("Stay hungry."), author |-> Str("Anon")]),
      NetError,
      Json(200, [content |-> Str("Less is more."), author |-> Str("Anon")]),
      NetTimeout,
      BadJson,
      JsonNull,
      Json(200, [content |-> Str("Stay hungry.")]),
      Json(404, [statusCode |-> Num(404000)])>>

\* the try block
quote_try(resp) ==
    LET r == await_json(resp) IN
    IF ~r.ok THEN r
    ELSE IF resp.kind = "null" THEN NoneNotSubscriptable
    ELSE LET data == resp.body IN
         IF "content" \notin DOMAIN data THEN KeyError("'content'")
         ELSE IF "author" \notin DOMAIN data THEN KeyError("'author'")
         ELSE Ok([source |-> "quote",
                  data |-> [text |-> data.content, author |-> data.author]])

\* the built-in quote returned without its demo mark
quote_fallback_unmarked(choice) == [source |-> "quote", data |-> quotes[choice]]

\* line 176, with random.choice having picked quotes[choice]
quote_fallback(choice) == [source |-> "quote", data |-> quotes[choice], demo |-> TRUE]

fetch_quote ==
    /\ pc["quote"] = "primary"
    /\ \E resp \in Responses(QuotableAnswers) :
         LET r == quote_try(resp) IN
         /\ Logged("quote", "primary", resp, r.ok)
         /\ IF r.ok THEN Return("quote", r.val)
            ELSE IF ~except_bare(r.exc) THEN Propagate("quote", r.exc)
            ELSE \E choice \in 1..Len(quotes) : Return("quote", quote_fallback(choice))
    /\ UNCHANGED <<keys, request, rpc, story_ids, articles, stocks, iter,
                   aggregate, widget, bpc, briefing, openai_calls>>

(***************************************************************************)
(* gather_all                                                              *)
(***************************************************************************)
\* the order of the task list, lines 181-187
tasks == <<"weather", "news", "stocks", "github", "quote">>

Finished(f) == pc[f] \in {"done", "raised"}

\* a race to the first result
gather_first_completed == \E f \in Sources : Finished(f)

\* return_exceptions left out: the first exception ends the wait
gather_until_exception ==
    (\A f \in Sources : Finished(f)) \/ (\E f \in Sources : pc[f] = "raised")

\* await asyncio.gather(*tasks, return_exceptions=True) is over
gather_ready == \A f \in Sources : Finished(f)

\* only the results without an error kept
is_dict_without_error(f) == pc[f] = "done" /\ "error" \notin DOMAIN result[f]

\* isinstance(r, dict), r being the outcome of task f
is_dict(f) == pc[f] = "done"

\* {r["source"]: r for r in results if isinstance(r, dict)}: a later result
\* replaces an earlier one stored under the same key
RECURSIVE dict_of(_)
dict_of(fs) ==
    IF fs = <<>> THEN <<>>
    ELSE LET f == fs[Len(fs)]
             before == dict_of(SubSeq(fs, 1, Len(fs) - 1))
         IN  IF ~is_dict(f) THEN before
             ELSE LET r == result[f] IN
                  [k \in DOMAIN before \cup {r.source} |->
                      IF k = r.source THEN r ELSE before[k]]

gather_all_start ==
    /\ rpc = "start"
    /\ request.route = "briefing"
    /\ rpc' = "gathering"
    /\ pc' = [f \in Sources |-> "primary"]
    /\ UNCHANGED <<keys, request, exc, result, story_ids, articles, stocks, iter,
                   log, aggregate, widget, bpc, briefing, openai_calls>>

gather_all_return ==
    /\ rpc = "gathering"
    /\ gather_ready
    /\ aggregate' = dict_of(tasks)
    /\ rpc' = "briefing"
    /\ UNCHANGED <<keys, request, pc, exc, result, story_ids, articles, stocks, iter,
                   log, widget, bpc, briefing, openai_calls>>

\* asyncio.CancelledError is a BaseException: `except Exception` (lines 51,
\* 92, 126, 158) does not catch it, the bare `except:` of fetch_quote (line
\* 169) does
CancelledError == [type |-> "CancelledError", msg |-> ""]

\* one of the tasks of gather_all is cancelled while it awaits the answer
\* to its first call: the coroutine ends with CancelledError, which
\* asyncio.gather(return_exceptions=True) hands back as the task's result
task_cancelled ==
    /\ rpc = "gathering"
    /\ \A g \in Sources : pc[g] # "raised"
    /\ \E f \in Sources :
         /\ pc[f] = "primary"
         /\ ~except_Exception(CancelledError)
         /\ f # "quote"
         /\ Propagate(f, CancelledError)
    /\ UNCHANGED <<keys, request, rpc, story_ids, articles, stocks, iter, log,
                   aggregate, widget, bpc, briefing, openai_calls>>

(***************************************************************************)
(* AIBriefingGenerator.  A text is the sequence of its parts.              *)
(***************************************************************************)
Has(data, src) == src \in DOMAIN data /\ "data" \in DOMAIN data[src]

\* isinstance(v, list)
is_list(v) == DOMAIN v = 1..Len(v)

\* f"{x:.2f}", f"{x:.1f}" and f"{x:+.1f}"
Format(v, spec) ==
    IF v.t # "num" THEN Raise("ValueError", "Unknown format code 'f' for object of type 'str'")
    ELSE Ok([fmt |-> spec, n |-> RoundTo(v.n, IF spec = ".2f" THEN 10 ELSE 100)])

AllStr(vs) == \A i \in 1..Len(vs) : vs[i].t = "str"

\* lines 235-237
context_weather(data) ==
    IF ~Has(data, "weather") THEN Ok(<<>>)
    ELSE LET w == data["weather"].data IN
         Ok(<<[part |-> "Weather in", city |-> w.city, temp |-> w.temp,
               condition |-> w.condition]>>)

\* lines 239-241
context_news(data) ==
    IF ~Has(data, "news") THEN Ok(<<>>)
    ELSE LET top == Slice(data["news"].data, 3)
             headlines == [i \in 1..Len(top) |-> top[i].title]
         IN  IF ~AllStr(headlines)
             THEN Raise("TypeError", "sequence item 0: expected str instance")
             ELSE Ok(<<[part |-> "Top headlines", headlines |-> headlines]>>)

RECURSIVE context_stock_items(_)
context_stock_items(ss) ==
    IF ss = <<>> THEN Ok(<<>>)
    ELSE LET price == Format(Head(ss).price, ".2f")
             pct == Format(Head(ss).change_pct, "+.1f")
             rest == context_stock_items(Tail(ss))
         IN  IF ~price.ok THEN price
             ELSE IF ~pct.ok THEN pct
             ELSE IF ~rest.ok THEN rest
             ELSE Ok(<<[symbol |-> Head(ss).symbol, price |-> price.val,
                        change_pct |-> pct.val]>> \o rest.val)

\* lines 243-245
context_stocks(data) ==
    IF ~(Has(data, "stocks") /\ is_list(data["stocks"].data)) THEN Ok(<<>>)
    ELSE LET items == context_stock_items(data["stocks"].data) IN
         IF ~items.ok THEN items
         ELSE Ok(<<[part |-> "Markets", stocks |-> items.val]>>)

\* lines 247-249
context_quote(data) ==
    IF ~Has(data, "quote") THEN Ok(<<>>)
    ELSE LET q == data["quote"].data IN
         Ok(<<[part |-> "Quote of the day", text |-> q.text, author |-> q.author]>>)

\* the parts of several steps in order, or the first exception among them
RECURSIVE Concat(_)
Concat(rs) ==
    IF rs = <<>> THEN Ok(<<>>)
    ELSE IF ~Head(rs).ok THEN Head(rs)
    ELSE LET rest == Concat(Tail(rs)) IN
         IF ~rest.ok THEN rest ELSE Ok(Head(rs).val \o rest.val)

_build_context(data) ==
    Concat(<<context_weather(data), context_news(data), context_stocks(data),
             context_quote(data)>>)

\* a placeholder sentence for a weather entry without data
mock_weather_placeholder(data) ==
    LET head == <<[part |-> "Good morning! Here's your intelligence briefing for"],
                  [part |-> "**Weather & Environment**"]>>
        w == IF Has(data, "weather") THEN data["weather"].data
             ELSE [temp |-> Str("N/A"), condition |-> Str("unknown"), city |-> Str("N/A")]
    IN  Ok(head \o <<[part |-> "It's", temp |-> w.temp,
                      condition |-> w.condition, city |-> w.city]>>)

\* lines 257-263
mock_weather(data) ==
    LET head == <<[part |-> "Good morning! Here's your intelligence briefing for"],
                  [part |-> "**Weather & Environment**"]>>
    IN  IF ~Has(data, "weather") THEN Ok(head)
        ELSE LET w == data["weather"].data
                 condition == PyLower(w.condition)
             IN  IF ~condition.ok THEN condition
                 ELSE Ok(head \o <<[part |-> "It's", temp |-> w.temp,
                                    condition |-> condition.val, city |-> w.city]>>)

\* line 268
direction(change_pct) == IF change_pct.n > 0 THEN "up" ELSE "down"

RECURSIVE mock_stock_items(_)
mock_stock_items(ss) ==
    IF ss = <<>> THEN Ok(<<>>)
    ELSE LET s == Head(ss) IN
         IF s.change_pct.t # "num"
         THEN Raise("TypeError", "'>' not supported between instances")
         ELSE LET pct == Format(Num(Abs(s.change_pct.n)), ".1f")
                  price == Format(s.price, ".2f")
                  rest == mock_stock_items(Tail(ss))
              IN  IF ~price.ok THEN price
                  ELSE IF ~rest.ok THEN rest
                  ELSE Ok(<<[part |-> "bullet", symbol |-> s.symbol,
                             direction |-> direction(s.change_pct),
                             change_pct |-> pct.val, price |-> price.val]>> \o rest.val)

\* lines 265-269
mock_stocks(data) ==
    LET head == <<[part |-> "**What's Moving**"]>> IN
    IF ~(Has(data, "stocks") /\ is_list(data["stocks"].data)) THEN Ok(head)
    ELSE LET items == mock_stock_items(data["stocks"].data) IN
         IF ~items.ok THEN items ELSE Ok(head \o items.val)

\* lines 271-274
mock_news(data) ==
    LET head == <<[part |-> "**Headlines to Watch**"]>> IN
    IF ~Has(data, "news") THEN Ok(head)
    ELSE LET top == Slice(data["news"].data, 3) IN
         Ok(head \o [i \in 1..Len(top) |-> [part |-> "bullet", title |-> top[i].title]])

\* lines 276-278
mock_quote(data) ==
    IF ~Has(data, "quote") THEN Ok(<<>>)
    ELSE LET q == data["quote"].data IN
         Ok(<<[part |-> "**Thought for Today**", text |-> q.text, author |-> q.author]>>)

_generate_mock_briefing(data) ==
    LET context == _build_context(data)
        text == Concat(<<mock_weather(data), mock_stocks(data), mock_news(data),
                         mock_quote(data)>>)
    IN  IF ~context.ok THEN context
        ELSE IF ~text.ok THEN text
        ELSE Ok([briefing |-> text.val, generated_at |-> "now",
                 ai_powered |-> FALSE, demo_mode |-> TRUE])

\* what the openai package may do: import and call succeed, the import
\* fails, the client cannot be built, the call fails
OpenAiOutcomes == {"ok", "ImportError", "OpenAIError", "APIError"}

\* lines 198-229, the package behaving as `outcome`:
\* the outcome of the call and the number of calls made to the service
generate(api_key, data, outcome) ==
    IF ~api_key THEN [r |-> _generate_mock_briefing(data), calls |-> 0]
    ELSE IF outcome = "ImportError"
    THEN [r |-> Raise("ImportError", "No module named 'openai'"), calls |-> 0]
    ELSE IF outcome = "OpenAIError"
    THEN [r |-> Raise("OpenAIError", "client could not be created"), calls |-> 0]
    ELSE LET context == _build_context(data) IN
         IF ~context.ok THEN [r |-> context, calls |-> 0]
         ELSE IF outcome = "ok"
         THEN [r |-> Ok([briefing |-> <<[part |-> "completion", context |-> context.val]>>,
                         generated_at |-> "now", ai_powered |-> TRUE]),
               calls |-> 1]
         ELSE [r |-> _generate_mock_briefing(data), calls |-> 1]

generate_briefing ==
    /\ rpc = "briefing"
    /\ bpc = "start"
    /\ \E outcome \in (IF keys.OPENAI_API_KEY THEN OpenAiOutcomes ELSE {"ok"}) :
         LET g == generate(keys.OPENAI_API_KEY, aggregate, outcome) IN
         /\ openai_calls' = openai_calls + g.calls
         /\ IF g.r.ok
            THEN bpc' = "done" /\ briefing' = g.r.val /\ rpc' = "responded"
            ELSE bpc' = "raised" /\ briefing' = g.r.exc /\ rpc' = "failed"
    /\ UNCHANGED <<keys, request, pc, exc, result, story_ids, articles, stocks, iter,
                   log, aggregate, widget>>

(***************************************************************************)
(* get_widget                                                              *)
(***************************************************************************)
get_widget_start ==
    /\ rpc = "start"
    /\ request.route = "widget"
    /\ IF request.widget_type \in Sources
       THEN /\ pc' = [pc EXCEPT ![request.widget_type] = "primary"]
            /\ rpc' = "fetching"
            /\ UNCHANGED widget
       ELSE /\ widget' = [error |-> "Unknown widget type"]
            /\ rpc' = "responded"
            /\ UNCHANGED pc
    /\ UNCHANGED <<keys, request, exc, result, story_ids, articles, stocks, iter,
                   log, aggregate, bpc, briefing, openai_calls>>

get_widget_return ==
    /\ rpc = "fetching"
    /\ Finished(request.widget_type)
    /\ IF pc[request.widget_type] = "done"
       THEN widget' = result[request.widget_type] /\ rpc' = "responded"
       ELSE UNCHANGED widget /\ rpc' = "failed"
    /\ UNCHANGED <<keys, request, pc, exc, result, story_ids, articles, stocks, iter,
                   log, aggregate, bpc, briefing, openai_calls>>

(***************************************************************************)
(* The requests, the initial state, the specification.                     *)
(***************************************************************************)
DefaultSymbols == <<"AAPL", "GOOGL", "MSFT">>
SymbolPool == <<"AAPL", "GOOGL", "MSFT", "TSLA", "AAPL", "", "NVDA">>
Cities == {"New York", "Paris"}
WidgetTypes == Sources \cup {"calendar"}

Requests ==
    {[route |-> "briefing", city |-> "New York", category |-> "technology",
      symbols |-> DefaultSymbols]}
    \cup {[route |-> "widget", widget_type |-> "weather", city |-> c,
           category |-> "technology", symbols |-> DefaultSymbols] : c \in Cities}
    \cup {[route |-> "widget", widget_type |-> w, city |-> "New York",
           category |-> "technology", symbols |-> DefaultSymbols] :
              w \in WidgetTypes \ {"weather", "stocks"}}
    \cup {[route |-> "widget", widget_type |-> "stocks", city |-> "New York",
           category |-> "technology",
           symbols |-> SubSeq(SymbolPool, 1, n)] : n \in 1..Min(MaxSymbols, Len(SymbolPool))}

KeyNames == {"OPENAI_API_KEY", "WEATHER_API_KEY", "NEWS_API_KEY", "ALPHA_VANTAGE_KEY"}

\* the credentials a request reads
KeysRead(req) ==
    CASE req.route = "briefing" -> KeyNames
      [] req.widget_type = "weather" -> {"WEATHER_API_KEY"}
      [] req.widget_type = "news" -> {"NEWS_API_KEY"}
      [] req.widget_type = "stocks" -> {"ALPHA_VANTAGE_KEY"}
      [] OTHER -> {}

\* a credential the request never reads is left unset
Init ==
    /\ request \in Requests
    /\ keys \in {k \in [KeyNames -> BOOLEAN] :
                    \A n \in KeyNames \ KeysRead(request) : ~k[n]}
    /\ rpc = "start"
    /\ pc = [f \in Sources |-> "idle"]
    /\ exc = [f \in Sources |-> NoExc]
    /\ result = [f \in Sources |-> NoValue]
    /\ story_ids = <<>>
    /\ articles = <<>>
    /\ stocks = <<>>
    /\ iter = [f \in {"news", "stocks"} |-> 0]
    /\ log = [f \in Sources |-> <<>>]
    /\ aggregate = NoValue
    /\ widget = NoValue
    /\ bpc = "start"
    /\ briefing = NoValue
    /\ openai_calls = 0

Next ==
    \/ gather_all_start
    \/ gather_all_return
    \/ generate_briefing
    \/ get_widget_start
    \/ get_widget_return
    \/ fetch_weather_primary
    \/ fetch_weather_secondary
    \/ fetch_news_list
    \/ fetch_news_detail
    \/ fetch_news_secondary
    \/ fetch_stocks_primary
    \/ fetch_stocks_secondary
    \/ fetch_github_trending
    \/ fetch_quote

Spec == Init /\ [][Next]_vars

\* The event loop runs every coroutine that can run, and every call to an
\* upstream ends: with an answer, with an error, or when its timeout
\* elapses (the timeout argument of lines 38, 111, 166, and for the calls
\* without one the total timeout of the ClientSession of lines 180, 334).
Fairness == WF_vars(Next)

\* the widget requests of Init, and the briefing request with no key but,
\* possibly, NEWS_API_KEY
InitFair ==
    /\ Init
    /\ request.route = "briefing" =>
          \A n \in KeyNames \ {"NEWS_API_KEY"} : ~keys[n]

SpecFair == InitFair /\ [][Next]_vars /\ Fairness

(***************************************************************************)
(* generate_briefing(data) on its own: data is any AggregateResult the     *)
(* fetchers' return statements can make up, every source being absent,     *)
(* failed or present.                                                      *)
(***************************************************************************)
WeatherInputs ==
    <<[source |-> "weather",
       data |-> [city |-> Str("New York"), temp |-> Num(72000), condition |-> Str("Clear"),
                 humidity |-> Num(40000), feels_like |-> Num(70000)]],
      error_result("weather", [type |-> "ClientConnectorError", msg |-> "Cannot connect to host"])>>

NewsInputs ==
    <<[source |-> "news",
       data |-> <<[title |-> Str("Show HN"), source |-> Str("Hacker News"), url |-> ItemUrl(31)],
                  [title |-> Str("Ask HN"), source |-> Str("Hacker News"), url |-> ItemUrl(17)]>>],
      [source |-> "news", data |-> <<>>],
      error_result("news", [type |-> "TimeoutError", msg |-> ""])>>

StockItem(symbol, change_pct) ==
    [symbol |-> Str(symbol), price |-> Num(500000),
     change |-> PyChange(Num(500000), Num(change_pct)), change_pct |-> Num(change_pct)]

StocksInputs ==
    <<[source |-> "stocks", crypto |-> TRUE,
       data |-> <<StockItem("BTC", 2350), StockItem("ETH", -1170), StockItem("SOL", 0)>>],
      error_result("stocks", [type |-> "ClientConnectorError", msg |-> "Cannot connect to host"])>>

QuoteInputs ==
    <<quote_fallback(1),
      error_result("quote", [type |-> "ClientConnectorError", msg |-> "Cannot connect to host"])>>

BriefingSources == {"weather", "news", "stocks", "quote"}

Inputs(src) ==
    CASE src = "weather" -> WeatherInputs
      [] src = "news" -> NewsInputs
      [] src = "stocks" -> StocksInputs
      [] src = "quote" -> QuoteInputs

\* the AggregateResult with the c[src]-th entry of each source, and no
\* entry for a source with c[src] = 0
Aggregate(c) ==
    [src \in {k \in BriefingSources : c[k] > 0} |-> Inputs(src)[c[src]]]

AggregateInputs ==
    {Aggregate(c) : c \in {c \in [BriefingSources -> 0..3] :
                              \A k \in BriefingSources : c[k] <= Len(Inputs(k))}}

InitBriefing ==
    /\ request = [route |-> "briefing", city |-> "New York", category |-> "technology",
                  symbols |-> DefaultSymbols]
    /\ keys \in {k \in [KeyNames -> BOOLEAN] : \A n \in KeyNames \ {"OPENAI_API_KEY"} : ~k[n]}
    /\ rpc = "briefing"
    /\ pc = [f \in Sources |-> "idle"]
    /\ exc = [f \in Sources |-> NoExc]
    /\ result = [f \in Sources |-> NoValue]
    /\ story_ids = <<>>
    /\ articles = <<>>
    /\ stocks = <<>>
    /\ iter = [f \in {"news", "stocks"} |-> 0]
    /\ log = [f \in Sources |-> <<>>]
    /\ aggregate \in AggregateInputs
    /\ widget = NoValue
    /\ bpc = "start"
    /\ briefing = NoValue
    /\ openai_calls = 0

SpecBriefing == InitBriefing /\ [][generate_briefing]_vars

(***************************************************************************)
(* /api/widget/quote requested several times in a row.  Nothing of a call  *)
(* outlives it (self.cache is never read or written), so that the next     *)
(* call starts fetch_quote afresh; `widget` keeps the previous response.   *)
(***************************************************************************)
get_widget_again ==
    /\ rpc = "responded"
    /\ request.route = "widget" /\ request.widget_type = "quote"
    /\ Len(log["quote"]) < MaxCalls
    /\ rpc' = "fetching"
    /\ pc' = [pc EXCEPT !["quote"] = "primary"]
    /\ result' = [result EXCEPT !["quote"] = NoValue]
    /\ UNCHANGED <<keys, request, exc, story_ids, articles, stocks, iter, log,
                   aggregate, widget, bpc, briefing, openai_calls>>

InitQuote == Init /\ request.route = "widget" /\ request.widget_type = "quote"

NextQuote == get_widget_start \/ fetch_quote \/ get_widget_return \/ get_widget_again

SpecQuote == InitQuote /\ [][NextQuote]_vars

\* the same program when a task of gather_all may be cancelled
NextIsolation == Next \/ task_cancelled

SpecIsolation == Init /\ [][NextIsolation]_vars

(***************************************************************************)
(* The properties.                                                         *)
(***************************************************************************)
GatherReturned == request.route = "briefing" /\ rpc \in {"briefing", "responded", "failed"}

IsDemo(r) == "demo" \in DOMAIN r /\ r.demo = TRUE
HasPayload(r) == "data" \in DOMAIN r /\ DOMAIN r.data # {}
HasError(r) == "error" \in DOMAIN r

IsPrimaryStep(e) == e.step \in {"primary", "detail"}
PrimaryFailed(f) == \E i \in 1..Len(log[f]) : IsPrimaryStep(log[f][i]) /\ ~log[f][i].ok
AllCallsFailed(f) == log[f] # <<>> /\ \A i \in 1..Len(log[f]) : ~log[f][i].ok
Unreachable(e) == e.resp.kind \in {"neterr", "timeout"}

\* C1: once gather_all has returned, its map has exactly the five sources
\* as keys, and the entry stored under a key carries that key as its source.
C1_OneEntryPerSource ==
    GatherReturned =>
        /\ DOMAIN aggregate = Sources
        /\ Cardinality(DOMAIN aggregate) = 5
        /\ \A k \in Sources : aggregate[k].source = k

\* gather_all has returned with a failed source, a source served by its
\* secondary and a demo source side by side
C1_Witness ==
    /\ GatherReturned
    /\ ~keys.WEATHER_API_KEY /\ HasError(aggregate["weather"])
    /\ keys.NEWS_API_KEY /\ Len(log["news"]) = 2 /\ HasPayload(aggregate["news"])
    /\ IsDemo(aggregate["quote"])

\* C2: a fetcher none of whose upstream calls succeeded returns demo=true
\* with a non-empty payload, and a demo result always carries a payload.
C2_DemoWhenAllUpstreamsFail ==
    \A f \in Sources :
        pc[f] = "done" =>
            /\ AllCallsFailed(f) => IsDemo(result[f]) /\ HasPayload(result[f])
            /\ IsDemo(result[f]) => HasPayload(result[f])

\* a part of the briefing that renders data of a source
IsDataPart(p) == p.part \in {"It's", "bullet", "**Thought for Today**"}
OnlyErrors(data) == \A k \in DOMAIN data : "data" \notin DOMAIN data[k]

\* C3: generate_briefing never raises and returns a complete Briefing; for
\* a map whose entries all hold only an error, the text has the greeting
\* and no data section.
C3_BriefingNeverRaises ==
    /\ bpc # "raised"
    /\ bpc = "done" =>
          /\ {"briefing", "generated_at", "ai_powered"} \subseteq DOMAIN briefing
          /\ briefing.briefing # <<>>
          /\ OnlyErrors(aggregate) =>
                /\ briefing.briefing[1].part = "Good morning! Here's your intelligence briefing for"
                /\ \A i \in 1..Len(briefing.briefing) : ~IsDataPart(briefing.briefing[i])

NoCredentials == \A n \in KeyNames : ~keys[n]
AllUnreachable == \A f \in Sources : \A i \in 1..Len(log[f]) : Unreachable(log[f][i])
QuoteTexts == {quotes[i].text : i \in 1..Len(quotes)}

\* C4: without credentials and with every upstream unreachable, gather_all
\* returns five entries that all have demo=true, and the briefing made of
\* them has ai_powered=false, demo_mode=true and quotes one of the three
\* built-in quotes verbatim.
C4_AllDemoEndToEnd ==
    (GatherReturned /\ NoCredentials /\ AllUnreachable) =>
        /\ DOMAIN aggregate = Sources
        /\ \A k \in Sources : IsDemo(aggregate[k])
        /\ aggregate["quote"].data.text \in QuoteTexts
        /\ bpc # "raised"
        /\ bpc = "done" =>
              /\ briefing.ai_powered = FALSE
              /\ "demo_mode" \in DOMAIN briefing /\ briefing.demo_mode = TRUE
              /\ \E i \in 1..Len(briefing.briefing) :
                    /\ briefing.briefing[i].part = "**Thought for Today**"
                    /\ briefing.briefing[i].text = aggregate["quote"].data.text

\* C5: no fetcher lets an exception out; a fetcher that has ended has
\* returned a result that carries its own source tag and a payload or an
\* error.
C5_NoFetcherRaises ==
    \A f \in Sources :
        /\ pc[f] # "raised"
        /\ pc[f] = "done" =>
              /\ "source" \in DOMAIN result[f]
              /\ result[f].source = f
              /\ "data" \in DOMAIN result[f] \/ "error" \in DOMAIN result[f]

\* fetch_news has returned although the primary answered the JSON document
\* null and the secondary a document whose fields have the wrong shape
C5_Witness ==
    /\ pc["news"] = "done"
    /\ Len(log["news"]) = 2
    /\ log["news"][1].resp.kind = "null"
    /\ log["news"][2].resp.kind = "json" /\ ~log["news"][2].ok

\* the documents of the quote upstream that carry a usable quote
ValidQuoteDocs ==
    {Json(200, GlobalQuote(Str("189.50"), Str("-2.25"), Str("-1.17%"))),
     Json(200, "Global Quote" :> ("05. price" :> Str("189.50")))}
FailedCall(e) == e.resp.kind \in {"neterr", "timeout", "badjson"}
Requested == Slice(request.symbols, 3)
Without(seq, k) == [j \in 1..(Len(seq) - 1) |-> IF j < k THEN seq[j] ELSE seq[j + 1]]

\* the secondary of fetch_stocks has asked for three symbols, the call for
\* the k-th has failed and the two others have brought a quote
OneOfThreeFailed(k) ==
    /\ pc["stocks"] = "done"
    /\ Len(Requested) = 3
    /\ Len(log["stocks"]) = 4
    /\ \A j \in 1..3 :
          IF j = k THEN FailedCall(log["stocks"][j + 1])
          ELSE log["stocks"][j + 1].resp \in ValidQuoteDocs

\* C6: when one of the three per-symbol calls of the market secondary
\* fails, the result holds the two other symbols in request order and no
\* error.
C6_PartialMarketResult ==
    \A k \in 1..3 :
        OneOfThreeFailed(k) =>
            /\ ~HasError(result["stocks"])
            /\ "data" \in DOMAIN result["stocks"]
            /\ [j \in 1..Len(result["stocks"].data) |-> result["stocks"].data[j].symbol.s]
                  = Without(Requested, k)

\* the call for the second of three symbols has failed
C6_Witness == OneOfThreeFailed(2)

CountStep(f, step) == Cardinality({i \in 1..Len(log[f]) : log[f][i].step = step})

\* C7: a news result has at most 5 items, a market result at most 3, a
\* trending result at most 5, a quote result is one quote; the market
\* secondary issues at most 3 requests.
C7_ResultSizes ==
    /\ CountStep("stocks", "secondary") <= 3
    /\ pc["news"] = "done" /\ "data" \in DOMAIN result["news"]
          => Len(result["news"].data) <= 5
    /\ pc["stocks"] = "done" /\ "data" \in DOMAIN result["stocks"]
          => Len(result["stocks"].data) <= 3
    /\ pc["github"] = "done" => Len(result["github"].data) <= 5
    /\ pc["quote"] = "done"
          => "data" \in DOMAIN result["quote"]
             /\ DOMAIN result["quote"].data = {"text", "author"}

\* the primary of fetch_news has been answered a list of more than five
\* IDs and has returned five articles
C7_Witness ==
    /\ pc["news"] = "done"
    /\ log["news"][1].resp.kind = "json" /\ Len(log["news"][1].resp.body) > 5
    /\ CountStep("news", "secondary") = 0
    /\ "data" \in DOMAIN result["news"] /\ Len(result["news"].data) = 5

\* C8: a returned result has exactly one of data and error.
C8_DataXorError ==
    \A f \in Sources :
        pc[f] = "done" => (("data" \in DOMAIN result[f]) # ("error" \in DOMAIN result[f]))

KeyConfigured(f) ==
    CASE f = "weather" -> keys.WEATHER_API_KEY
      [] f = "news" -> keys.NEWS_API_KEY
      [] f = "stocks" -> keys.ALPHA_VANTAGE_KEY
      [] OTHER -> FALSE

HasQuote(resp) ==
    /\ resp.kind = "json"
    /\ "Global Quote" \in DOMAIN resp.body
    /\ DOMAIN resp.body["Global Quote"] # {}

\* the i-th call of f has produced what f returns if nothing follows
StepSucceeded(f, i) ==
    LET e == log[f][i] IN
    CASE f = "stocks" /\ e.step = "secondary" -> FALSE
      [] f = "news" /\ IsPrimaryStep(e) -> FALSE
      [] OTHER -> e.ok

\* C9: the primary is the first call; the secondary is called only after a
\* call of the primary has failed and only with its key configured; nothing
\* is called after a step has succeeded, and the result is that step's;
\* the fallback result is returned only once the primary has failed and
\* the secondary, if configured, has been tried and has brought nothing.
C9_ChainOrder ==
    \A f \in Sources :
        LET L == log[f] IN
        /\ L # <<>> => L[1].step = "primary"
        /\ \A i \in 1..Len(L) :
              /\ L[i].step = "secondary" =>
                    /\ KeyConfigured(f)
                    /\ \E j \in 1..(i - 1) : IsPrimaryStep(L[j]) /\ ~L[j].ok
              /\ IsPrimaryStep(L[i]) /\ ~L[i].ok =>
                    \A j \in (i + 1)..Len(L) : L[j].step = "secondary"
              /\ StepSucceeded(f, i) =>
                    /\ i = Len(L)
                    /\ pc[f] = "done"
                    /\ "data" \in DOMAIN result[f]
                    /\ ~HasError(result[f]) /\ ~IsDemo(result[f])
        /\ pc[f] = "done" /\ Len(L) = 1 /\ L[1].ok /\ f = "weather"
              => result[f] = weather_primary(L[1].resp).val
        /\ pc[f] = "done" /\ Len(L) = 2 /\ L[2].ok /\ f = "news"
              => result[f] = news_secondary(L[2].resp).val
        /\ pc[f] = "done" /\ (HasError(result[f]) \/ IsDemo(result[f])) =>
              /\ PrimaryFailed(f)
              /\ KeyConfigured(f) =>
                    /\ CountStep(f, "secondary") >= 1
                    /\ \A i \in 1..Len(L) :
                          L[i].step = "secondary" =>
                              IF f = "stocks" THEN ~(L[i].ok /\ HasQuote(L[i].resp))
                              ELSE ~L[i].ok
                    /\ f = "stocks" => CountStep(f, "secondary") = Len(Requested)

\* fetch_weather has returned the payload of its secondary, called after
\* the primary had failed
C9_Witness ==
    /\ pc["weather"] = "done"
    /\ Len(log["weather"]) = 2
    /\ ~log["weather"][1].ok /\ log["weather"][2].ok
    /\ result["weather"] = weather_secondary(log["weather"][2].resp, request.city).val

\* C10: gather_all returns only once all five fetchers have ended.
C10_Barrier == GatherReturned => \A f \in Sources : Finished(f)

\* gather_all has returned the demo quote of a failed fetch_quote together
\* with the result of a fetch_news that needed three calls
C10_Witness ==
    /\ GatherReturned
    /\ IsDemo(aggregate["quote"])
    /\ Len(log["news"]) >= 3
    /\ HasPayload(aggregate["news"])

\* C11: when a task of gather_all has ended with an exception, gather_all
\* returns all the same, its map has no entry for that task, and the entry
\* of every other task is the result that task returned.
C11_FailureIsolation ==
    GatherReturned =>
        /\ DOMAIN aggregate = {f \in Sources : pc[f] = "done"}
        /\ \A f \in Sources :
              IF pc[f] = "raised" THEN f \notin DOMAIN aggregate
              ELSE f \in DOMAIN aggregate /\ aggregate[f] = result[f]

\* gather_all has returned four entries, fetch_news having been cancelled
C11_Witness ==
    /\ GatherReturned
    /\ pc["news"] = "raised"
    /\ DOMAIN aggregate = Sources \ {"news"}
    /\ HasPayload(aggregate["weather"])

\* a body that is not JSON, or a JSON body under a status outside 200..299
BadResponse(resp) ==
    \/ resp.kind = "badjson"
    \/ resp.kind \in {"json", "null"} /\ ~(resp.status \in 200..299)
Live(r) == "data" \in DOMAIN r /\ ~IsDemo(r) /\ ~HasError(r)

\* C12: a call answered with a status outside 2xx, or with a body that is
\* not JSON, is a failed step of the chain, and the fetcher does not
\* return a live result made from that answer.
C12_BadResponseIsFailure ==
    \A f \in Sources :
        \A i \in 1..Len(log[f]) :
            BadResponse(log[f][i].resp) =>
                /\ ~log[f][i].ok
                /\ pc[f] = "done" /\ i = Len(log[f]) => ~Live(result[f])

\* C13: with OPENAI_API_KEY configured, generate_briefing does not let a
\* failure of the generative path out but returns the template briefing
\* (ai_powered=false, demo_mode=true); ai_powered=true is returned only
\* after a successful call of the service, and without a key the service
\* is not called.
C13_SynthesizerFallback ==
    /\ keys.OPENAI_API_KEY => bpc # "raised"
    /\ ~keys.OPENAI_API_KEY => openai_calls = 0
    /\ bpc = "done" =>
          IF briefing.ai_powered THEN keys.OPENAI_API_KEY /\ openai_calls = 1
          ELSE "demo_mode" \in DOMAIN briefing /\ briefing.demo_mode = TRUE

TimedOut(f) == \E i \in 1..Len(log[f]) : log[f][i].resp.kind = "timeout"

\* the request has got what it waited for: gather_all (the fetcher of the
\* widget) has returned, and every fetcher that was started has returned
AllReturned ==
    IF request.route = "briefing"
    THEN GatherReturned /\ \A f \in Sources : pc[f] = "done"
    ELSE /\ rpc = "responded"
         /\ request.widget_type \in Sources => pc[request.widget_type] = "done"

\* C14: every fetcher that has been started returns, and so does
\* gather_all; a call that has timed out is a failed step of the chain,
\* from which the fetcher goes on to its fallback.
C14_Termination ==
    /\ <>AllReturned
    /\ [](\A f \in Sources : \A i \in 1..Len(log[f]) :
            log[f][i].resp.kind = "timeout" => ~log[f][i].ok)

\* gather_all has returned although the ID-list call of fetch_news and
\* the call of fetch_github_trending, neither of which is given a timeout
\* argument, had timed out
C14_Witness ==
    /\ GatherReturned
    /\ TimedOut("news") /\ HasError(aggregate["news"])
    /\ TimedOut("github") /\ IsDemo(aggregate["github"])

\* the source whose payload a part of a text renders
SourceOfPart(p) ==
    CASE p.part \in {"Weather in", "It's"} -> "weather"
      [] p.part = "Top headlines" -> "news"
      [] p.part = "bullet" /\ "title" \in DOMAIN p -> "news"
      [] p.part = "Markets" -> "stocks"
      [] p.part = "bullet" /\ "symbol" \in DOMAIN p -> "stocks"
      [] p.part \in {"Quote of the day", "**Thought for Today**"} -> "quote"
      [] OTHER -> "none"
Contributes(parts, src) == \E i \in 1..Len(parts) : SourceOfPart(parts[i]) = src
FixedParts ==
    {"Good morning! Here's your intelligence briefing for", "**Weather & Environment**",
     "**What's Moving**", "**Headlines to Watch**"}
\* the text generate_briefing has made: the context handed to the service,
\* or the template briefing
RenderedParts ==
    IF briefing.ai_powered THEN briefing.briefing[1].context ELSE briefing.briefing

NoNetwork == \A i \in 1..Len(log["quote"]) : Unreachable(log["quote"][i])
BuiltInQuotes == {quotes[i] : i \in 1..Len(quotes)}
\* fetch_quote has returned and an earlier call had been answered
SecondResult == pc["quote"] = "done" /\ rpc = "fetching" /\ "none" \notin DOMAIN widget

\* C16: without network every call of fetch_quote returns source=quote,
\* demo=true, no error and one of the three built-in quotes, and the result
\* of a call differs from that of the call before at most in the quote.
C16_QuoteIdempotence ==
    NoNetwork =>
        /\ pc["quote"] # "raised"
        /\ pc["quote"] = "done" =>
              /\ DOMAIN result["quote"] = {"source", "data", "demo"}
              /\ result["quote"].source = "quote"
              /\ result["quote"].demo = TRUE
              /\ result["quote"].data \in BuiltInQuotes
        /\ SecondResult =>
              /\ DOMAIN widget = DOMAIN result["quote"]
              /\ widget.source = result["quote"].source
              /\ widget.demo = result["quote"].demo
              /\ DOMAIN widget.data = DOMAIN result["quote"].data

\* two calls in a row without network, answered with different quotes
C16_Witness ==
    /\ NoNetwork
    /\ Len(log["quote"]) = 2
    /\ SecondResult
    /\ widget.data # result["quote"].data

\* C17: the response to a widget request has a source field, and it is the
\* widget type that was requested.
C17_SourceMatchesRequest ==
    request.route = "widget" /\ rpc = "responded" =>
        /\ "source" \in DOMAIN widget
        /\ widget.source = request.widget_type

IsStockBullet(p) == p.part = "bullet" /\ "symbol" \in DOMAIN p

\* C18: in the template briefing the i-th market bullet says "up" exactly
\* when the change_pct of the i-th market item is above 0 and "down"
\* exactly when it is below 0, and shows the absolute value of change_pct.
C18_DirectionFollowsSign ==
    (bpc = "done" /\ ~briefing.ai_powered /\ Has(aggregate, "stocks")) =>
        LET items == aggregate["stocks"].data
            bullets == SelectSeq(briefing.briefing, IsStockBullet)
        IN  /\ Len(bullets) = Len(items)
            /\ \A i \in 1..Len(items) :
                  /\ bullets[i].direction = "up" <=> items[i].change_pct.n > 0
                  /\ bullets[i].direction = "down" <=> items[i].change_pct.n < 0
                  /\ bullets[i].change_pct.n
                        = RoundTo(Abs(items[i].change_pct.n), 100)

IsTitled(e) == e.resp.titled
HnUrls(story_id) == {ItemUrl(story_id), Str("https://example.org")}

\* C19: a detail call of the news primary comes after the answer to the
\* ID-list call, the i-th detail call asks for the i-th ID of the list,
\* there are at most 5 of them, and the articles returned are those of the
\* stories with a title, in the order of the list.
C19_NewsTwoPhase ==
    LET L == log["news"] IN
    /\ CountStep("news", "detail") <= 5
    /\ \A i \in 1..Len(L) :
          L[i].step = "detail" =>
              /\ i >= 2
              /\ L[1].step = "primary" /\ L[1].ok /\ L[1].resp.kind = "json"
              /\ i - 1 <= Len(L[1].resp.body)
              /\ L[i].resp.id = L[1].resp.body[i - 1]
    /\ (pc["news"] = "done" /\ "data" \in DOMAIN result["news"]
          /\ CountStep("news", "secondary") = 0) =>
            LET ids == L[1].resp.body
                details == SubSeq(L, 2, Len(L))
                titled == SelectSeq(details, IsTitled)
                data == result["news"].data
            IN  /\ Len(details) = IF Len(ids) < 5 THEN Len(ids) ELSE 5
                /\ Len(data) = Len(titled)
                /\ \A j \in 1..Len(data) : data[j].url \in HnUrls(titled[j].resp.id)

\* the primary has returned the articles of a list of more than five IDs
\* one of whose first five stories has no title: those before and after
\* it are there
C19_Witness ==
    LET L == log["news"] IN
    /\ pc["news"] = "done"
    /\ Len(L) = 6
    /\ L[1].resp.kind = "json" /\ Len(L[1].resp.body) > 5
    /\ L[2].resp.titled /\ ~L[3].resp.titled /\ L[3].ok /\ L[4].resp.titled
    /\ L[6].ok
    /\ "data" \in DOMAIN result["news"]
    /\ Len(result["news"].data) >= 2
    /\ result["news"].data[1].url = ItemUrl(L[1].resp.body[1])
    /\ result["news"].data[2].url = ItemUrl(L[1].resp.body[3])

\* a call of the news primary that did not bring a JSON document
PrimaryCallFailed(e) == IsPrimaryStep(e) /\ FailedCall(e)
IsHnArticle(a) == "url" \in DOMAIN a

\* C20: once the ID-list call or a detail call of the news primary has
\* failed, no further call of the primary is made and no article of the
\* primary is returned: the result is that of the secondary alone, or, when
\* the secondary is not configured or fails, the error result without data.
C20_NewsAllOrNothing ==
    LET L == log["news"] IN
    /\ \A i \in 1..Len(L) :
          PrimaryCallFailed(L[i]) => \A j \in (i + 1)..Len(L) : L[j].step = "secondary"
    /\ (pc["news"] = "done" /\ \E i \in 1..Len(L) : PrimaryCallFailed(L[i])) =>
          IF L[Len(L)].step = "secondary" /\ L[Len(L)].ok
          THEN /\ keys.NEWS_API_KEY
               /\ result["news"] = news_secondary(L[Len(L)].resp).val
               /\ \A j \in 1..Len(result["news"].data) : ~IsHnArticle(result["news"].data[j])
          ELSE /\ "data" \notin DOMAIN result["news"]
               /\ HasError(result["news"])
               /\ keys.NEWS_API_KEY => L[Len(L)].step = "secondary"
    /\ (pc["news"] = "done" /\ "data" \in DOMAIN result["news"]) =>
          \/ \A j \in 1..Len(result["news"].data) : IsHnArticle(result["news"].data[j])
          \/ \A j \in 1..Len(result["news"].data) : ~IsHnArticle(result["news"].data[j])

\* two stories had been collected when the third detail call failed, and
\* fetch_news has returned the articles of the secondary
C20_Witness ==
    LET L == log["news"] IN
    /\ pc["news"] = "done"
    /\ Len(L) = 5
    /\ L[2].resp.titled /\ L[3].resp.titled
    /\ L[4].step = "detail" /\ FailedCall(L[4])
    /\ L[5].step = "secondary" /\ L[5].ok
    /\ HasPayload(result["news"])

====
